---- MODULE Spec2Model ----
(***************************************************************************)
(* FatDB (util/src/trie/fatdb.rs): a mutable trie that hashes its keys     *)
(* before handing them to a TrieDBMut, and records hash -> key in the      *)
(* backing HashDB's aux channel so FatDBIterator can give the keys back.   *)
(*                                                                         *)
(* The trie engine (TrieDBMut / TrieDB / TrieDBIterator), the HashDB and   *)
(* sha3 are not part of fatdb.rs; they are modelled from their contract:   *)
(* a trie is a finite map from byte strings to byte strings, its root is   *)
(* an injective commitment to that map, the store keeps every trie state   *)
(* written to it, and the native iterator walks the map in key order.      *)
(***************************************************************************)
EXTENDS Naturals, Sequences, FiniteSets

\* ---------------------------------------------------------------- bounds

\* Trie mutations (insert / remove / raw insert) performed in one behaviour.
MaxOps == 3

\* The width of a digest in bytes.  H256 has 32; the model keeps the two
\* leading bytes that tell its digests apart and cuts the zero tail short.
HashLen == 2

\* ------------------------------------------------------------ byte data

\* An H256 whose two leading bytes hold n (n < 65536) and whose other bytes
\* are 0.
H256(n) ==
    [i \in 1..HashLen |->
        IF i = 1 THEN (n \div 256) % 256
        ELSE IF i = 2 THEN n % 256
        ELSE 0]

\* H256::default(): the all-zero hash the caller's root starts from.
H256_default == H256(0)

RECURSIVE ByteSum(_, _)
ByteSum(bytes, i) ==
    IF i > Len(bytes) THEN 0
    ELSE (2 * i + 1) * bytes[i] + ByteSum(bytes, i + 1)

\* key.sha3(): a deterministic fixed-width digest of a byte string.  The
\* black-box hash is stood in for by a mixing function that is collision-free
\* on the keys of the model and does not follow their byte order.
sha3(bytes) == H256((155 + 101 * Len(bytes) + 3 * ByteSum(bytes, 1)) % 251)

\* The key of the repository's test, [0x01, 0x23].
TestKey == <<1, 35>>

\* Caller keys: the test key, the empty key, and a digest-wide key that is
\* itself the digest of another key.
Keys == {TestKey, <<>>, sha3(TestKey)}

\* Caller values.
Values == {<<1, 35>>, <<7>>}

\* The digests of the caller keys.
Digests == {sha3(k) : k \in Keys}

\* Every byte string the underlying trie is asked to hold in this model:
\* digests (through the adapter) and raw byte strings (around it).
TrieKeys == Digests \cup Keys

\* The trie keys a caller writes with a TrieDBMut of its own: a caller key
\* as it is, and the digest of a caller key.
RawKeys == {TestKey, sha3(<<>>)}

\* Two independent backing stores, each with its own root variable.
Stores == {1, 2}

\* Option<T>.
None == <<>>
Some(x) == <<x>>

\* Lexicographic byte order, a proper prefix first: the order in which the
\* trie's native iterator visits keys.
RECURSIVE LessFrom(_, _, _)
LessFrom(a, b, i) ==
    IF i > Len(a) THEN i <= Len(b)
    ELSE IF i > Len(b) THEN FALSE
    ELSE IF a[i] # b[i] THEN a[i] < b[i]
    ELSE LessFrom(a, b, i + 1)

Less(a, b) == LessFrom(a, b, 1)

\* The elements of a set of byte strings as a sequence in ascending order.
RECURSIVE Sorted(_)
Sorted(S) ==
    IF S = {} THEN <<>>
    ELSE LET m == CHOOSE x \in S : \A y \in S \ {x} : Less(x, y)
         IN  <<m>> \o Sorted(S \ {m})

Range(f) == {f[x] : x \in DOMAIN f}

\* ------------------------------------------------------------ trie engine

\* A trie state: a finite map from byte strings to values.
EmptyTrie == [x \in {} |-> <<>>]

TrieInsert(t, tk, v) ==
    [x \in DOMAIN t \cup {tk} |-> IF x = tk THEN v ELSE t[x]]

TrieRemove(t, tk) == [x \in DOMAIN t \ {tk} |-> t[x]]

TrieGet(t, tk) == IF tk \in DOMAIN t THEN Some(t[tk]) ELSE None

TrieContains(t, tk) == tk \in DOMAIN t

KeyRank(tk) == Cardinality({x \in TrieKeys : Less(x, tk)})

ValueCode(v) == 1 + Cardinality({x \in Values : Less(x, v)})

RECURSIVE Pow(_, _)
Pow(b, e) == IF e = 0 THEN 1 ELSE b * Pow(b, e - 1)

RECURSIVE Commit(_, _)
Commit(t, ks) ==
    IF ks = {} THEN 0
    ELSE LET tk == CHOOSE x \in ks : TRUE
         IN  ValueCode(t[tk]) * Pow(Cardinality(Values) + 1, KeyRank(tk))
             + Commit(t, ks \ {tk})

\* The Merkle root of a trie state: a digest that commits to its whole
\* content (equal contents, equal roots; different contents, different
\* roots) and is never the all-zero hash.
RootOf(t) == H256(1 + Commit(t, DOMAIN t))

\* SHA3_NULL_RLP: the root of the empty trie.
SHA3_NULL_RLP == RootOf(EmptyTrie)

\* ------------------------------------------------------------------ state

VARIABLES
    nodes,    \* nodes[s]: the trie states HashDB s holds, root -> trie state
    aux,      \* aux[s]: the aux channel of HashDB s, digest -> original key
    rootRef,  \* rootRef[s]: the caller's `root: H256` for store s
    open,     \* open[s]: a FatDB is alive on store s (holds both borrows)
    iter,     \* the FatDBIterator, if any, and what it has yielded
    nops,     \* trie mutations performed so far
    clean,    \* clean[s]: the trie at rootRef[s] was built from FatDB::new
              \*           by FatDB::insert / FatDB::remove alone
    hist,     \* hist[s]: those inserts and removes, in order
    last      \* the most recent operation and what it returned

vars == <<nodes, aux, rootRef, open, iter, nops, clean, hist, last>>

NoIter == [st |-> "none", s |-> 1, pending |-> <<>>, out |-> <<>>]

Op(op, s, k, v, ret) == [op |-> op, s |-> s, k |-> k, v |-> v, ret |-> ret]

Init ==
    /\ nodes = [s \in Stores |-> EmptyTrie]
    /\ aux = [s \in Stores |-> EmptyTrie]
    /\ rootRef = [s \in Stores |-> H256_default]
    /\ open = [s \in Stores |-> FALSE]
    /\ iter = NoIter
    /\ nops = 0
    /\ clean = [s \in Stores |-> FALSE]
    /\ hist = [s \in Stores |-> <<>>]
    /\ last = Op("init", 1, <<>>, <<>>, None)

\* The root resolves to a trie state held by the store.
Resolves(s, r) == r \in DOMAIN nodes[s]

\* The trie state a root names.
TrieAt(s, r) == nodes[s][r]

\* The store after a trie state is committed to it: the state is kept under
\* its root, and so is every state written before.
Commits(db, t) == [r \in DOMAIN db \cup {RootOf(t)} |-> IF r = RootOf(t) THEN t ELSE db[r]]

\* self.raw: the trie the adapter's TrieDBMut currently stands on.
raw(s) == TrieAt(s, rootRef[s])

\* The process has not aborted.
Alive == iter.st # "panicked"

\* Store s and its root are lent to a live iterator (a shared borrow).
Lent(s) == iter.st \in {"active", "done"} /\ iter.s = s

\* ---------------------------------------------------------------- FatDB

\* FatDB::root
root(s) == rootRef[s]

\* FatDB::contains that looks the key itself up, not its hash.
contains_unhashed(s, key) == TrieContains(raw(s), key)

\* FatDB::contains
contains(s, key) == TrieContains(raw(s), sha3(key))

\* FatDB::get
get(s, key) == TrieGet(raw(s), sha3(key))

\* FatDB::new that opens the trie the root already names when there is one.
new_keep_root(s) ==
    /\ Alive /\ ~open[s] /\ ~Lent(s)
    /\ IF Resolves(s, rootRef[s])
       THEN UNCHANGED <<nodes, rootRef>>
       ELSE /\ nodes' = [nodes EXCEPT ![s] = Commits(@, EmptyTrie)]
            /\ rootRef' = [rootRef EXCEPT ![s] = SHA3_NULL_RLP]
    /\ open' = [open EXCEPT ![s] = TRUE]
    /\ clean' = [clean EXCEPT ![s] = TRUE]
    /\ hist' = [hist EXCEPT ![s] = <<>>]
    /\ last' = Op("new", s, <<>>, <<>>, None)
    /\ UNCHANGED <<aux, iter, nops>>

\* FatDB::new
new(s) ==
    /\ Alive /\ ~open[s] /\ ~Lent(s)
    /\ nodes' = [nodes EXCEPT ![s] = Commits(@, EmptyTrie)]
    /\ rootRef' = [rootRef EXCEPT ![s] = SHA3_NULL_RLP]
    /\ open' = [open EXCEPT ![s] = TRUE]
    /\ clean' = [clean EXCEPT ![s] = TRUE]
    /\ hist' = [hist EXCEPT ![s] = <<>>]
    /\ last' = Op("new", s, <<>>, <<>>, None)
    /\ UNCHANGED <<aux, iter, nops>>

\* FatDB::from_existing that falls back to an empty trie instead of
\* returning the error.
from_existing_or_new(s) ==
    /\ Alive /\ ~open[s] /\ ~Lent(s)
    /\ IF Resolves(s, rootRef[s])
       THEN UNCHANGED <<nodes, rootRef>>
       ELSE /\ nodes' = [nodes EXCEPT ![s] = Commits(@, EmptyTrie)]
            /\ rootRef' = [rootRef EXCEPT ![s] = SHA3_NULL_RLP]
    /\ open' = [open EXCEPT ![s] = TRUE]
    /\ last' = Op("from_existing", s, <<>>, <<>>, <<"Ok">>)
    /\ UNCHANGED <<aux, iter, nops, clean, hist>>

\* FatDB::from_existing that builds its TrieDBMut the way FatDB::new does.
from_existing_as_new(s) ==
    /\ Alive /\ ~open[s] /\ ~Lent(s)
    /\ nodes' = [nodes EXCEPT ![s] = Commits(@, EmptyTrie)]
    /\ rootRef' = [rootRef EXCEPT ![s] = SHA3_NULL_RLP]
    /\ open' = [open EXCEPT ![s] = TRUE]
    /\ last' = Op("from_existing", s, <<>>, <<>>, <<"Ok">>)
    /\ UNCHANGED <<aux, iter, nops, clean, hist>>

\* FatDB::from_existing
from_existing(s) ==
    /\ Alive /\ ~open[s] /\ ~Lent(s)
    /\ IF Resolves(s, rootRef[s])
       THEN /\ open' = [open EXCEPT ![s] = TRUE]
            /\ last' = Op("from_existing", s, <<>>, <<>>, <<"Ok">>)
       ELSE /\ open' = open
            /\ last' = Op("from_existing", s, <<>>, <<>>, <<"Err">>)
    /\ UNCHANGED <<nodes, aux, rootRef, iter, nops, clean, hist>>

\* FatDB::insert that hands the key itself, not its hash, to the trie.
insert_unhashed(s, key, value) ==
    /\ Alive /\ open[s] /\ nops < MaxOps
    /\ LET hash == sha3(key)
           t == TrieInsert(raw(s), key, value)
       IN  /\ nodes' = [nodes EXCEPT ![s] = Commits(@, t)]
           /\ rootRef' = [rootRef EXCEPT ![s] = RootOf(t)]
           /\ aux' = [aux EXCEPT ![s] = TrieInsert(@, hash, key)]
    /\ nops' = nops + 1
    /\ hist' = [hist EXCEPT ![s] = Append(@, <<"insert", key, value>>)]
    /\ last' = Op("insert", s, key, value, None)
    /\ UNCHANGED <<open, iter, clean>>

\* FatDB::insert without the insert_aux call.
insert_no_aux(s, key, value) ==
    /\ Alive /\ open[s] /\ nops < MaxOps
    /\ LET hash == sha3(key)
           t == TrieInsert(raw(s), hash, value)
       IN  /\ nodes' = [nodes EXCEPT ![s] = Commits(@, t)]
           /\ rootRef' = [rootRef EXCEPT ![s] = RootOf(t)]
    /\ nops' = nops + 1
    /\ hist' = [hist EXCEPT ![s] = Append(@, <<"insert", key, value>>)]
    /\ last' = Op("insert", s, key, value, None)
    /\ UNCHANGED <<aux, open, iter, clean>>

\* FatDB::insert that adds the value to the one already stored under the
\* key instead of replacing it.
insert_append_value(s, key, value) ==
    /\ Alive /\ open[s] /\ nops < MaxOps
    /\ LET hash == sha3(key)
           old == IF hash \in DOMAIN raw(s) THEN raw(s)[hash] ELSE <<>>
           t == TrieInsert(raw(s), hash, old \o value)
       IN  /\ nodes' = [nodes EXCEPT ![s] = Commits(@, t)]
           /\ rootRef' = [rootRef EXCEPT ![s] = RootOf(t)]
           /\ aux' = [aux EXCEPT ![s] = TrieInsert(@, hash, key)]
    /\ nops' = nops + 1
    /\ hist' = [hist EXCEPT ![s] = Append(@, <<"insert", key, value>>)]
    /\ last' = Op("insert", s, key, value, None)
    /\ UNCHANGED <<open, iter, clean>>

\* FatDB::insert that leaves a value already stored under the key alone.
insert_keep_first(s, key, value) ==
    /\ Alive /\ open[s] /\ nops < MaxOps
    /\ LET hash == sha3(key)
           t == IF hash \in DOMAIN raw(s) THEN raw(s)
                ELSE TrieInsert(raw(s), hash, value)
       IN  /\ nodes' = [nodes EXCEPT ![s] = Commits(@, t)]
           /\ rootRef' = [rootRef EXCEPT ![s] = RootOf(t)]
           /\ aux' = [aux EXCEPT ![s] = TrieInsert(@, hash, key)]
    /\ nops' = nops + 1
    /\ hist' = [hist EXCEPT ![s] = Append(@, <<"insert", key, value>>)]
    /\ last' = Op("insert", s, key, value, None)
    /\ UNCHANGED <<open, iter, clean>>

\* FatDB::insert that calls insert_aux with its arguments exchanged.
insert_aux_swapped(s, key, value) ==
    /\ Alive /\ open[s] /\ nops < MaxOps
    /\ LET hash == sha3(key)
           t == TrieInsert(raw(s), hash, value)
       IN  /\ nodes' = [nodes EXCEPT ![s] = Commits(@, t)]
           /\ rootRef' = [rootRef EXCEPT ![s] = RootOf(t)]
           /\ aux' = [aux EXCEPT ![s] = TrieInsert(@, key, hash)]
    /\ nops' = nops + 1
    /\ hist' = [hist EXCEPT ![s] = Append(@, <<"insert", key, value>>)]
    /\ last' = Op("insert", s, key, value, None)
    /\ UNCHANGED <<open, iter, clean>>

\* FatDB::insert
insert(s, key, value) ==
    /\ Alive /\ open[s] /\ nops < MaxOps
    /\ LET hash == sha3(key)
           t == TrieInsert(raw(s), hash, value)
       IN  /\ nodes' = [nodes EXCEPT ![s] = Commits(@, t)]
           /\ rootRef' = [rootRef EXCEPT ![s] = RootOf(t)]
           /\ aux' = [aux EXCEPT ![s] = TrieInsert(@, hash, key)]
    /\ nops' = nops + 1
    /\ hist' = [hist EXCEPT ![s] = Append(@, <<"insert", key, value>>)]
    /\ last' = Op("insert", s, key, value, None)
    /\ UNCHANGED <<open, iter, clean>>

\* FatDB::remove that hands the key itself, not its hash, to the trie.
remove_unhashed(s, key) ==
    /\ Alive /\ open[s] /\ nops < MaxOps
    /\ LET t == TrieRemove(raw(s), key)
       IN  /\ nodes' = [nodes EXCEPT ![s] = Commits(@, t)]
           /\ rootRef' = [rootRef EXCEPT ![s] = RootOf(t)]
    /\ nops' = nops + 1
    /\ hist' = [hist EXCEPT ![s] = Append(@, <<"remove", key, <<>>>>)]
    /\ last' = Op("remove", s, key, <<>>, None)
    /\ UNCHANGED <<aux, open, iter, clean>>

\* FatDB::remove that never reaches the trie.
remove_noop(s, key) ==
    /\ Alive /\ open[s] /\ nops < MaxOps
    /\ nops' = nops + 1
    /\ hist' = [hist EXCEPT ![s] = Append(@, <<"remove", key, <<>>>>)]
    /\ last' = Op("remove", s, key, <<>>, None)
    /\ UNCHANGED <<nodes, rootRef, aux, open, iter, clean>>

\* FatDB::remove that also deletes the key's aux entry.
remove_prune_aux(s, key) ==
    /\ Alive /\ open[s] /\ nops < MaxOps
    /\ LET t == TrieRemove(raw(s), sha3(key))
       IN  /\ nodes' = [nodes EXCEPT ![s] = Commits(@, t)]
           /\ rootRef' = [rootRef EXCEPT ![s] = RootOf(t)]
           /\ aux' = [aux EXCEPT ![s] = TrieRemove(@, sha3(key))]
    /\ nops' = nops + 1
    /\ hist' = [hist EXCEPT ![s] = Append(@, <<"remove", key, <<>>>>)]
    /\ last' = Op("remove", s, key, <<>>, None)
    /\ UNCHANGED <<open, iter, clean>>

\* FatDB::remove that writes the aux entry the way insert does.
remove_records_aux(s, key) ==
    /\ Alive /\ open[s] /\ nops < MaxOps
    /\ LET t == TrieRemove(raw(s), sha3(key))
       IN  /\ nodes' = [nodes EXCEPT ![s] = Commits(@, t)]
           /\ rootRef' = [rootRef EXCEPT ![s] = RootOf(t)]
           /\ aux' = [aux EXCEPT ![s] = TrieInsert(@, sha3(key), key)]
    /\ nops' = nops + 1
    /\ hist' = [hist EXCEPT ![s] = Append(@, <<"remove", key, <<>>>>)]
    /\ last' = Op("remove", s, key, <<>>, None)
    /\ UNCHANGED <<open, iter, clean>>

\* FatDB::remove
remove(s, key) ==
    /\ Alive /\ open[s] /\ nops < MaxOps
    /\ LET t == TrieRemove(raw(s), sha3(key))
       IN  /\ nodes' = [nodes EXCEPT ![s] = Commits(@, t)]
           /\ rootRef' = [rootRef EXCEPT ![s] = RootOf(t)]
    /\ nops' = nops + 1
    /\ hist' = [hist EXCEPT ![s] = Append(@, <<"remove", key, <<>>>>)]
    /\ last' = Op("remove", s, key, <<>>, None)
    /\ UNCHANGED <<aux, open, iter, clean>>

\* The end of the FatDB's scope: both borrows are given back.
drop(s) ==
    /\ Alive /\ open[s]
    /\ open' = [open EXCEPT ![s] = FALSE]
    /\ last' = Op("drop", s, <<>>, <<>>, None)
    /\ UNCHANGED <<nodes, aux, rootRef, iter, nops, clean, hist>>

\* A read through the adapter: FatDB::root, FatDB::contains, FatDB::get.
call_root(s) ==
    /\ Alive /\ open[s]
    /\ last' = Op("root", s, <<>>, <<>>, Some(root(s)))
    /\ UNCHANGED <<nodes, aux, rootRef, open, iter, nops, clean, hist>>

call_contains(s, key) ==
    /\ Alive /\ open[s]
    /\ last' = Op("contains", s, key, <<>>, Some(contains(s, key)))
    /\ UNCHANGED <<nodes, aux, rootRef, open, iter, nops, clean, hist>>

call_get(s, key) ==
    /\ Alive /\ open[s]
    /\ last' = Op("get", s, key, <<>>, get(s, key))
    /\ UNCHANGED <<nodes, aux, rootRef, open, iter, nops, clean, hist>>

\* ------------------------------------------------------------ the caller

\* The roots a caller writes into its root variable: the default hash, or
\* the root another store's variable holds.
KnownRoots(s) == {H256_default} \cup {rootRef[o] : o \in Stores}

\* The caller assigns its root variable while nothing borrows it.
set_root(s, r) ==
    /\ Alive /\ ~open[s] /\ ~Lent(s)
    /\ r # rootRef[s]
    /\ rootRef' = [rootRef EXCEPT ![s] = r]
    /\ clean' = [clean EXCEPT ![s] = FALSE]
    /\ hist' = [hist EXCEPT ![s] = <<>>]
    /\ last' = Op("set_root", s, <<>>, <<>>, None)
    /\ UNCHANGED <<nodes, aux, open, iter, nops>>

\* The caller writes to the trie with a TrieDBMut of its own, around the
\* adapter: the trie key is used as given and no aux entry is written.
raw_insert(s, tk, value) ==
    /\ Alive /\ ~open[s] /\ ~Lent(s) /\ nops < MaxOps
    /\ Resolves(s, rootRef[s])
    /\ LET t == TrieInsert(raw(s), tk, value)
       IN  /\ nodes' = [nodes EXCEPT ![s] = Commits(@, t)]
           /\ rootRef' = [rootRef EXCEPT ![s] = RootOf(t)]
    /\ nops' = nops + 1
    /\ clean' = [clean EXCEPT ![s] = FALSE]
    /\ hist' = [hist EXCEPT ![s] = <<>>]
    /\ last' = Op("raw_insert", s, tk, value, None)
    /\ UNCHANGED <<aux, open, iter>>

\* ---------------------------------------------------------- FatDBIterator

\* TrieDBIterator::new over a TrieDB: the (key, value) pairs of the trie in
\* key order, still to be visited.
TrieDBIterator(t) ==
    LET ks == Sorted(DOMAIN t)
    IN  [i \in 1..Len(ks) |-> <<ks[i], t[ks[i]]>>]

\* TrieDB::new(db, root) and FatDBIterator::new(trie)
iter_new(s) ==
    /\ Alive /\ ~open[s] /\ iter.st = "none"
    /\ Resolves(s, rootRef[s])
    /\ iter' = [st |-> "active", s |-> s,
                pending |-> TrieDBIterator(raw(s)), out |-> <<>>]
    /\ last' = Op("iter_new", s, <<>>, <<>>, None)
    /\ UNCHANGED <<nodes, aux, rootRef, open, nops, clean, hist>>

\* FatDBIterator::next that yields the trie's own key, the hash, without
\* the aux lookup.
next_yields_hash ==
    /\ iter.st \in {"active", "done"}
    /\ IF iter.pending = <<>>
       THEN /\ iter' = [iter EXCEPT !.st = "done"]
            /\ last' = Op("next", iter.s, <<>>, <<>>, None)
       ELSE LET hash == Head(iter.pending)[1]
                value == Head(iter.pending)[2]
            IN  /\ iter' = [iter EXCEPT
                               !.pending = Tail(@),
                               !.out = Append(@, <<hash, value>>)]
                /\ last' = Op("next", iter.s, hash, value, Some(<<hash, value>>))
    /\ UNCHANGED <<nodes, aux, rootRef, open, nops, clean, hist>>

\* FatDBIterator::next that visits the entries in the order of their
\* original keys instead of the trie's order.
next_key_order ==
    /\ iter.st \in {"active", "done"}
    /\ IF iter.pending = <<>>
       THEN /\ iter' = [iter EXCEPT !.st = "done"]
            /\ last' = Op("next", iter.s, <<>>, <<>>, None)
       ELSE LET p == iter.pending
                keyof(i) == IF p[i][1] \in DOMAIN aux[iter.s]
                            THEN aux[iter.s][p[i][1]] ELSE p[i][1]
                at == CHOOSE i \in 1..Len(p) :
                          \A j \in 1..Len(p) : ~Less(keyof(j), keyof(i))
                hash == p[at][1]
                value == p[at][2]
                rest == SubSeq(p, 1, at - 1) \o SubSeq(p, at + 1, Len(p))
            IN  IF hash \in DOMAIN aux[iter.s]
                THEN /\ iter' = [iter EXCEPT
                                    !.pending = rest,
                                    !.out = Append(@, <<aux[iter.s][hash], value>>)]
                     /\ last' = Op("next", iter.s, aux[iter.s][hash], value,
                                   Some(<<aux[iter.s][hash], value>>))
                ELSE /\ iter' = [iter EXCEPT !.st = "panicked"]
                     /\ last' = Op("next", iter.s, hash, value, None)
    /\ UNCHANGED <<nodes, aux, rootRef, open, nops, clean, hist>>

\* FatDBIterator::next that passes over an entry whose hash has no aux
\* entry instead of stopping the process.
next_skip_missing ==
    /\ iter.st \in {"active", "done"}
    /\ IF iter.pending = <<>>
       THEN /\ iter' = [iter EXCEPT !.st = "done"]
            /\ last' = Op("next", iter.s, <<>>, <<>>, None)
       ELSE LET hash == Head(iter.pending)[1]
                value == Head(iter.pending)[2]
            IN  IF hash \in DOMAIN aux[iter.s]
                THEN /\ iter' = [iter EXCEPT
                                    !.pending = Tail(@),
                                    !.out = Append(@, <<aux[iter.s][hash], value>>)]
                     /\ last' = Op("next", iter.s, aux[iter.s][hash], value,
                                   Some(<<aux[iter.s][hash], value>>))
                ELSE /\ iter' = [iter EXCEPT !.pending = Tail(@)]
                     /\ last' = Op("next", iter.s, hash, value, None)
    /\ UNCHANGED <<nodes, aux, rootRef, open, nops, clean, hist>>

\* FatDBIterator::next that yields the entry the trie iterator stands on
\* without moving it on.
next_no_advance ==
    /\ iter.st \in {"active", "done"}
    /\ IF iter.pending = <<>>
       THEN /\ iter' = [iter EXCEPT !.st = "done"]
            /\ last' = Op("next", iter.s, <<>>, <<>>, None)
       ELSE LET hash == Head(iter.pending)[1]
                value == Head(iter.pending)[2]
            IN  IF hash \in DOMAIN aux[iter.s]
                THEN /\ iter' = [iter EXCEPT
                                    !.out = Append(@, <<aux[iter.s][hash], value>>)]
                     /\ last' = Op("next", iter.s, aux[iter.s][hash], value,
                                   Some(<<aux[iter.s][hash], value>>))
                ELSE /\ iter' = [iter EXCEPT !.st = "panicked"]
                     /\ last' = Op("next", iter.s, hash, value, None)
    /\ UNCHANGED <<nodes, aux, rootRef, open, nops, clean, hist>>

\* FatDBIterator::next
next ==
    /\ iter.st \in {"active", "done"}
    /\ IF iter.pending = <<>>
       THEN /\ iter' = [iter EXCEPT !.st = "done"]
            /\ last' = Op("next", iter.s, <<>>, <<>>, None)
       ELSE LET hash == Head(iter.pending)[1]
                value == Head(iter.pending)[2]
            IN  IF hash \in DOMAIN aux[iter.s]
                THEN /\ iter' = [iter EXCEPT
                                    !.pending = Tail(@),
                                    !.out = Append(@, <<aux[iter.s][hash], value>>)]
                     /\ last' = Op("next", iter.s, aux[iter.s][hash], value,
                                   Some(<<aux[iter.s][hash], value>>))
                ELSE /\ iter' = [iter EXCEPT !.st = "panicked"]
                     /\ last' = Op("next", iter.s, hash, value, None)
    /\ UNCHANGED <<nodes, aux, rootRef, open, nops, clean, hist>>

\* The iterator and the TrieDB it reads go out of scope.
iter_drop ==
    /\ iter.st \in {"active", "done"}
    /\ iter' = NoIter
    /\ last' = Op("iter_drop", iter.s, <<>>, <<>>, None)
    /\ UNCHANGED <<nodes, aux, rootRef, open, nops, clean, hist>>

\* ------------------------------------------------------- specifications

Step(s) ==
    \/ new(s)
    \/ from_existing(s)
    \/ \E k \in Keys, v \in Values : insert(s, k, v)
    \/ \E k \in Keys : remove(s, k)
    \/ drop(s)
    \/ call_root(s)
    \/ \E k \in Keys : call_contains(s, k)
    \/ \E k \in Keys : call_get(s, k)
    \/ \E r \in KnownRoots(s) : set_root(s, r)
    \/ \E tk \in RawKeys, v \in Values : raw_insert(s, tk, v)
    \/ iter_new(s)

\* One store, one adapter at a time, one iterator at a time.
Next ==
    \/ Step(1)
    \/ next
    \/ iter_drop

Spec == Init /\ [][Next]_vars

\* Two stores side by side, each with its own root variable and adapter.
PairStep(s) ==
    \/ new(s)
    \/ \E k \in Keys, v \in Values : insert(s, k, v)
    \/ \E k \in Keys : remove(s, k)
    \/ drop(s)

PairNext == \E s \in Stores : PairStep(s)

PairSpec == Init /\ [][PairNext]_vars

\* ------------------------------------------------------------ the log

\* hist entries are <<"insert", key, value>> or <<"remove", key, <<>>>>.
InsertsOnly(h) == \A i \in 1..Len(h) : h[i][1] = "insert"

\* The (key, value) pairs a log inserts.
Pairs(h) == {<<h[i][2], h[i][3]>> : i \in {j \in 1..Len(h) : h[j][1] = "insert"}}

\* No key is inserted with two different values.
DistinctKeys(ps) == \A p \in ps, q \in ps : p[1] = q[1] => p = q

\* The log's most recent operation on key is a remove.
LastIsRemove(h, key) ==
    \E i \in 1..Len(h) :
        /\ h[i][1] = "remove" /\ h[i][2] = key
        /\ \A j \in (i + 1)..Len(h) : h[j][2] # key

\* The log inserts key at some point.
Inserted(h, key) == \E i \in 1..Len(h) : h[i][1] = "insert" /\ h[i][2] = key

\* The keys an iterator has yielded.
Yielded == {iter.out[i][1] : i \in 1..Len(iter.out)}

\* ------------------------------------------------------------- claims

\* C1: immediately after insert(k, v), from whatever state the adapter was
\* in, get(k) is Some(v) and contains(k) is true.
C1_InsertThenGet ==
    last.op = "insert" =>
        /\ get(last.s, last.k) = Some(last.v)
        /\ contains(last.s, last.k)

\* An insert that overwrites a different value, after earlier operations.
C1_Witness ==
    /\ last.op = "insert"
    /\ Len(hist[last.s]) >= 3
    /\ \E i \in 1..(Len(hist[last.s]) - 1) :
          /\ hist[last.s][i][1] = "insert"
          /\ hist[last.s][i][2] = last.k
          /\ hist[last.s][i][3] # last.v

\* C2: after insert(k, v) followed by remove(k), get(k) is None and
\* contains(k) is false.
C2_InsertRemoveThenAbsent ==
    \A s \in Stores :
        LET h == hist[s] n == Len(hist[s])
        IN  ( /\ last.op = "remove" /\ last.s = s
              /\ n >= 2
              /\ h[n - 1][1] = "insert" /\ h[n - 1][2] = last.k )
            => /\ get(s, last.k) = None
               /\ ~contains(s, last.k)

\* remove(k) right after insert(k, v), with another key still in the trie.
C2_Witness ==
    LET h == hist[last.s] n == Len(hist[last.s])
    IN  /\ last.op = "remove"
        /\ n >= 3
        /\ h[n - 1][1] = "insert" /\ h[n - 1][2] = last.k
        /\ DOMAIN raw(last.s) # {}

\* C3: in a trie built from FatDB::new by adapter inserts and removes alone,
\* every digest that is a key of the trie has an aux entry, and an iterator
\* over such a trie never fails its aux lookup.
C3_TrieKeysHaveAux ==
    /\ \A s \in Stores :
          clean[s] => /\ Resolves(s, rootRef[s])
                      /\ DOMAIN raw(s) \subseteq DOMAIN aux[s]
    /\ iter.st = "panicked" => ~clean[iter.s]

\* An adapter-built trie with two entries left after a remove.
C3_Witness ==
    \E s \in Stores :
        /\ clean[s]
        /\ Cardinality(DOMAIN raw(s)) >= 2
        /\ Cardinality(DOMAIN aux[s]) > Cardinality(DOMAIN raw(s))

\* C4 as stated: a trie built by inserting a set of distinct pairs into a
\* fresh trie iterates to exactly that set of pairs.
C4_AsStated ==
    ( /\ iter.st = "done"
      /\ clean[iter.s]
      /\ InsertsOnly(hist[iter.s]) )
    => Range(iter.out) = Pairs(hist[iter.s])

\* C4: a trie built by inserting pairs with pairwise distinct keys into a
\* fresh trie iterates to exactly that set of pairs, each pair once.
C4_IterationRoundTrip ==
    ( /\ iter.st = "done"
      /\ clean[iter.s]
      /\ InsertsOnly(hist[iter.s])
      /\ DistinctKeys(Pairs(hist[iter.s])) )
    => /\ Range(iter.out) = Pairs(hist[iter.s])
       /\ Len(iter.out) = Cardinality(Pairs(hist[iter.s]))

\* A finished iteration over a trie built from two inserts of distinct keys.
C4_Witness ==
    /\ iter.st = "done"
    /\ clean[iter.s]
    /\ InsertsOnly(hist[iter.s])
    /\ DistinctKeys(Pairs(hist[iter.s]))
    /\ Cardinality(Pairs(hist[iter.s])) >= 2

\* C5: a key whose most recent operation was remove(k) is never yielded by
\* an iterator over the current trie, although the aux entry an earlier
\* insert wrote for it is still there.
C5_RemovedNeverYielded ==
    \A s \in Stores, k \in Keys :
        LastIsRemove(hist[s], k) =>
            /\ (iter.st # "none" /\ iter.s = s) => k \notin Yielded
            /\ Inserted(hist[s], k) =>
                  /\ sha3(k) \in DOMAIN aux[s]
                  /\ aux[s][sha3(k)] = k

\* A finished iteration that yielded something, over a trie from which a
\* key that had been inserted was removed.
C5_Witness ==
    /\ iter.st = "done"
    /\ iter.out # <<>>
    /\ \E k \in Keys :
          /\ LastIsRemove(hist[iter.s], k)
          /\ Inserted(hist[iter.s], k)

\* C6: the aux channel only grows: no step deletes or changes an entry,
\* and remove leaves it exactly as it was.
C6_AuxAppendOnly ==
    [][ /\ \A s \in Stores : \A d \in DOMAIN aux[s] :
              d \in DOMAIN aux'[s] /\ aux'[s][d] = aux[s][d]
        /\ last'.op = "remove" => aux' = aux ]_vars

\* After remove(k) the key is gone from the trie and its aux entry is not.
C6_Witness ==
    /\ last.op = "remove"
    /\ sha3(last.k) \in DOMAIN aux[last.s]
    /\ ~contains(last.s, last.k)

\* C7: inserting the pair that was just inserted leaves get(k), root() and
\* the aux channel as the first insert left them.
C7_InsertIdempotent ==
    [][ ( /\ last.op = "insert"
          /\ last' = last
          /\ nops' # nops )
        => /\ get(last.s, last.k)' = get(last.s, last.k)
           /\ root(last.s)' = root(last.s)
           /\ aux' = aux ]_vars

\* The same pair inserted twice in a row, into a trie that holds another
\* key as well.
C7_Witness ==
    LET h == hist[last.s] n == Len(hist[last.s])
    IN  /\ last.op = "insert"
        /\ n >= 3
        /\ h[n] = h[n - 1]
        /\ h[n - 2][2] # last.k

\* C8: two adapters created with FatDB::new over separate stores and given
\* the same sequence of inserts have the same root and answer get and
\* contains alike for every key.
C8_SameInsertsSameRoot ==
    ( /\ clean[1] /\ clean[2]
      /\ hist[1] = hist[2]
      /\ InsertsOnly(hist[1]) )
    => /\ root(1) = root(2)
       /\ \A k \in Keys : /\ get(1, k) = get(2, k)
                           /\ contains(1, k) = contains(2, k)

\* Both adapters were given the same insert, and one of the stores held a
\* trie before its adapter was created.
C8_Witness ==
    /\ clean[1] /\ clean[2]
    /\ hist[1] = hist[2]
    /\ InsertsOnly(hist[1])
    /\ Len(hist[1]) >= 1
    /\ DOMAIN nodes[1] # DOMAIN nodes[2]

\* C9: from_existing on a root the store does not resolve returns an error,
\* creates no adapter, and leaves the store's tries, the aux channel and
\* the root variable as they were.
C9_FromExistingMissingRoot ==
    [][ \A s \in Stores :
          ( /\ last'.op = "from_existing" /\ last'.s = s
            /\ ~Resolves(s, rootRef[s]) )
          => /\ last'.ret = <<"Err">>
             /\ open' = open
             /\ nodes' = nodes
             /\ aux' = aux
             /\ rootRef' = rootRef ]_vars

\* from_existing has failed on a store that holds tries and aux entries.
C9_Witness ==
    /\ last.op = "from_existing"
    /\ last.ret = <<"Err">>
    /\ ~open[last.s]
    /\ Cardinality(DOMAIN nodes[last.s]) >= 2
    /\ DOMAIN aux[last.s] # {}

\* C10: new succeeds whatever the root variable and the store hold, and
\* yields an adapter over the empty trie: root() is the empty-trie root,
\* no key is contained, get is None for every key, iteration yields nothing.
C10_NewIsEmpty ==
    /\ \A s \in Stores :
          (Alive /\ ~open[s] /\ ~Lent(s)) => ENABLED new(s)
    /\ last.op = "new" =>
          /\ open[last.s]
          /\ root(last.s) = SHA3_NULL_RLP
          /\ \A k \in Keys : /\ ~contains(last.s, k)
                              /\ get(last.s, k) = None
          /\ TrieDBIterator(raw(last.s)) = <<>>
    /\ ( /\ iter.st = "done"
          /\ clean[iter.s]
          /\ hist[iter.s] = <<>> ) => iter.out = <<>>

\* new on a store that already holds a non-empty trie and aux entries.
C10_Witness ==
    /\ last.op = "new"
    /\ \E r \in DOMAIN nodes[last.s] : nodes[last.s][r] # EmptyTrie
    /\ DOMAIN aux[last.s] # {}

\* The position of the first insert of key in a log, 0 if there is none.
FirstInsert(h, key) ==
    IF Inserted(h, key)
    THEN CHOOSE i \in 1..Len(h) :
             /\ h[i][1] = "insert" /\ h[i][2] = key
             /\ \A j \in 1..(i - 1) : ~(h[j][1] = "insert" /\ h[j][2] = key)
    ELSE 0

\* C11: the iterator yields pairs in the order of the digests of their
\* keys, the trie's traversal order, whatever the order of the inserts and
\* the order of the original keys: the digests of what it has yielded,
\* followed by what it has still to visit, are the trie's keys in order.
C11_DigestOrder ==
    iter.st # "none" =>
        LET ys == [i \in 1..Len(iter.out) |-> sha3(iter.out[i][1])]
            ps == [i \in 1..Len(iter.pending) |-> iter.pending[i][1]]
        IN  ys \o ps = Sorted(DOMAIN raw(iter.s))

\* A finished iteration whose first two pairs come in neither the order of
\* their inserts nor the order of their keys.
C11_Witness ==
    /\ iter.st = "done"
    /\ clean[iter.s]
    /\ Len(iter.out) >= 2
    /\ Less(iter.out[2][1], iter.out[1][1])
    /\ FirstInsert(hist[iter.s], iter.out[2][1])
          < FirstInsert(hist[iter.s], iter.out[1][1])

\* C12: when the iterator gets to a trie key that has no aux entry, the
\* call to next stops the process: the entry is neither yielded nor passed
\* over, and nothing else is yielded after it.
C12_MissingAuxIsFatal ==
    /\ [][ ( /\ iter.st = "active"
            /\ iter.pending # <<>>
            /\ Head(iter.pending)[1] \notin DOMAIN aux[iter.s]
            /\ last'.op = "next" )
          => /\ iter'.st = "panicked"
             /\ iter'.out = iter.out
             /\ iter'.pending = iter.pending ]_vars
    /\ [](iter.st = "panicked" => ~ENABLED Next)

\* The iterator has yielded a pair and then stopped the process on an entry
\* written around the adapter.
C12_Witness ==
    /\ iter.st = "panicked"
    /\ iter.out # <<>>
    /\ Head(iter.pending)[1] \notin DOMAIN aux[iter.s]

\* C13: remove(k) of a key that is not in the trie changes nothing: the
\* trie's entries, get and contains for every key, the root, the store's
\* trie states and the aux channel are as before.
C13_RemoveAbsentIsNoOp ==
    [][ \A s \in Stores, key \in Keys :
          ( /\ last' = Op("remove", s, key, <<>>, None)
            /\ nops' # nops
            /\ ~contains(s, key) )
          => /\ raw(s)' = raw(s)
             /\ \A k \in Keys :
                   /\ get(s, k)' = get(s, k)
                   /\ contains(s, k)' = contains(s, k)
             /\ root(s)' = root(s)
             /\ nodes' = nodes
             /\ aux' = aux ]_vars

\* remove(k) of a key that was never inserted, from a trie that holds
\* another key.
C13_Witness ==
    /\ last.op = "remove"
    /\ ~Inserted(hist[last.s], last.k)
    /\ sha3(last.k) \notin DOMAIN aux[last.s]
    /\ DOMAIN raw(last.s) # {}

\* C14: root(), contains(k) and get(k) change nothing (the store's trie
\* states, the root, the aux channel, the adapter and the iterator stay as
\* they are), and contains(k) is true exactly when get(k) is not None.
C14_ReadsArePure ==
    /\ [][ last'.op \in {"root", "contains", "get"}
            => UNCHANGED <<nodes, rootRef, aux, open, iter, nops>> ]_vars
    /\ [](\A s \in Stores : open[s] =>
             \A k \in Keys : contains(s, k) <=> (get(s, k) # None))
    /\ [](last.op = "contains" =>
             last.ret = Some(get(last.s, last.k) # None))

\* contains has answered true for one key while another key is absent.
C14_Witness ==
    /\ last.op = "contains"
    /\ last.ret = Some(TRUE)
    /\ \E k \in Keys : get(last.s, k) = None

\* The log's most recent operation on key is insert(key, value).
LastIsInsert(h, key, value) ==
    \E i \in 1..Len(h) :
        /\ h[i] = <<"insert", key, value>>
        /\ \A j \in (i + 1)..Len(h) : h[j][2] # key

\* C15: last write wins: when the most recent operation on k is
\* insert(k, v), whatever was inserted under k before, get(k) is Some(v)
\* and a full iteration yields exactly one pair for k, the pair (k, v).
C15_LastWriteWins ==
    \A s \in Stores, k \in Keys, v \in Values :
        LastIsInsert(hist[s], k, v) =>
            /\ get(s, k) = Some(v)
            /\ (iter.st = "done" /\ iter.s = s) =>
                  /\ Cardinality({i \in 1..Len(iter.out) : iter.out[i][1] = k}) = 1
                  /\ <<k, v>> \in Range(iter.out)

\* A finished iteration over a trie in which a key was inserted twice with
\* different values, next to another key.
C15_Witness ==
    /\ iter.st = "done"
    /\ Len(iter.out) >= 2
    /\ \E k \in Keys, v \in Values, w \in Values :
          /\ v # w
          /\ Inserted(hist[iter.s], k)
          /\ <<"insert", k, w>> \in Range(hist[iter.s])
          /\ LastIsInsert(hist[iter.s], k, v)

\* The keys that are live after a log: most recently inserted, not removed.
LiveKeys(h) == {k \in Keys : \E v \in Values : LastIsInsert(h, k, v)}

\* The value a live key has after a log.
LiveValue(h, k) == CHOOSE v \in Values : LastIsInsert(h, k, v)

\* The digest-keyed trie a log stands for: sha3(k) -> v for the live keys.
HashedTrie(h) ==
    [d \in {sha3(k) : k \in LiveKeys(h)} |->
        LiveValue(h, CHOOSE k \in LiveKeys(h) : sha3(k) = d)]

\* C16 as stated: the trie holds exactly sha3(k) -> v for the live keys, a
\* raw view returns v for sha3(k), and nothing is stored under a live key k
\* itself.
C16_AsStated ==
    \A s \in Stores :
        clean[s] =>
            /\ raw(s) = HashedTrie(hist[s])
            /\ \A k \in LiveKeys(hist[s]) :
                  /\ TrieGet(raw(s), sha3(k)) = Some(LiveValue(hist[s], k))
                  /\ TrieGet(raw(s), k) = None

\* C16: the trie holds exactly sha3(k) -> v for the live keys, a raw view
\* returns v for sha3(k), and nothing is stored under a live key k itself
\* unless k is the digest of a live key.
C16_RefinesHashedTrie ==
    \A s \in Stores :
        clean[s] =>
            /\ raw(s) = HashedTrie(hist[s])
            /\ \A k \in LiveKeys(hist[s]) :
                  /\ TrieGet(raw(s), sha3(k)) = Some(LiveValue(hist[s], k))
                  /\ TrieGet(raw(s), k) # None
                        => \E k2 \in LiveKeys(hist[s]) : sha3(k2) = k

\* A trie built by the adapter with two live keys, one of them the digest
\* of the other, after a remove.
C16_Witness ==
    \E s \in Stores :
        /\ clean[s]
        /\ Cardinality(LiveKeys(hist[s])) >= 2
        /\ \E k \in LiveKeys(hist[s]) : sha3(k) \in LiveKeys(hist[s])
        /\ \E k \in Keys : LastIsRemove(hist[s], k)

\* The number of entries of the trie view the iterator reads.
ViewSize == Cardinality(DOMAIN raw(iter.s))

\* C17 as stated: every traversal of a view holding n entries ends with
\* exactly n pairs yielded, none repeated, and exhaustion reported.
C17_AsStated ==
    iter.st \in {"done", "panicked"} =>
        /\ iter.st = "done"
        /\ Len(iter.out) = ViewSize
        /\ \A i, j \in 1..Len(iter.out) : iter.out[i] = iter.out[j] => i = j

\* C17: an iterator over a view holding n entries is finite and single
\* pass unless it stops the process on an entry with no aux entry: what it
\* has yielded and what it has still to visit are n entries, none yielded
\* twice; each call either yields the next entry, reports exhaustion or
\* stops the process; once it has reported exhaustion it has yielded
\* exactly n pairs and every later call reports exhaustion again.
C17_FiniteSinglePass ==
    /\ [](iter.st # "none" =>
             /\ Len(iter.out) + Len(iter.pending) = ViewSize
             /\ \A i, j \in 1..Len(iter.out) :
                   iter.out[i] = iter.out[j] => i = j
             /\ iter.st = "done" =>
                   /\ iter.pending = <<>>
                   /\ Len(iter.out) = ViewSize)
    /\ [][ (last'.op = "next" /\ iter.st = "active")
            => \/ /\ iter'.st = "active"
                  /\ Len(iter'.pending) = Len(iter.pending) - 1
                  /\ Len(iter'.out) = Len(iter.out) + 1
                  /\ last'.ret # None
               \/ /\ iter'.st = "done"
                  /\ iter.pending = <<>>
                  /\ iter'.out = iter.out
                  /\ last'.ret = None
               \/ /\ iter'.st = "panicked"
                  /\ iter.pending # <<>>
                  /\ Head(iter.pending)[1] \notin DOMAIN aux[iter.s] ]_vars
    /\ [][ (last'.op = "next" /\ iter.st = "done")
            => (iter' = iter /\ last'.ret = None) ]_vars

\* An iterator that has yielded both entries of a view and reported
\* exhaustion.
C17_Witness ==
    /\ iter.st = "done"
    /\ last.op = "next"
    /\ ViewSize >= 2
    /\ Len(iter.out) = ViewSize

\* C18: every aux entry d -> k has sha3(k) = d, so every key the iterator
\* yields hashes to the trie key its value is stored under, and get(key)
\* returns the value yielded with it.
C18_AuxInvertsHash ==
    /\ \A s \in Stores : \A d \in DOMAIN aux[s] : sha3(aux[s][d]) = d
    /\ iter.st # "none" =>
          \A i \in 1..Len(iter.out) :
              LET key == iter.out[i][1]
                  value == iter.out[i][2]
              IN  /\ sha3(key) \in DOMAIN raw(iter.s)
                  /\ raw(iter.s)[sha3(key)] = value
                  /\ get(iter.s, key) = Some(value)

\* A finished iteration that yielded a key through an aux entry left by an
\* earlier insert, for a trie entry written around the adapter.
C18_Witness ==
    /\ iter.st = "done"
    /\ iter.out # <<>>
    /\ ~clean[iter.s]
    /\ DOMAIN aux[iter.s] # {}

\* C19: dropping the adapter leaves the store's trie states, the root and
\* the aux channel as they are, and from_existing on that store and root
\* succeeds with the same get and contains answers for every key and the
\* same iteration as at the adapter's end.
C19_ReopenSeesSameTrie ==
    [][ \A s \in Stores :
          /\ (last'.op = "drop" /\ last'.s = s)
                => /\ nodes' = nodes /\ rootRef' = rootRef /\ aux' = aux
                   /\ Resolves(s, rootRef[s])'
          /\ ( /\ last.op \in {"drop", "iter_drop"} /\ last.s = s
                /\ last'.op = "from_existing" /\ last'.s = s )
                => /\ last'.ret = <<"Ok">>
                   /\ open'[s]
                   /\ \A k \in Keys :
                         /\ get(s, k)' = get(s, k)
                         /\ contains(s, k)' = contains(s, k)
                   /\ TrieDBIterator(raw(s))' = TrieDBIterator(raw(s))
                   /\ aux' = aux ]_vars

\* An adapter reopened on a trie that an earlier adapter built with an
\* insert and a remove and left non-empty.
C19_Witness ==
    /\ last.op = "from_existing"
    /\ last.ret = <<"Ok">>
    /\ clean[last.s]
    /\ DOMAIN raw(last.s) # {}
    /\ \E k \in Keys : LastIsRemove(hist[last.s], k)

====
